---- MODULE Spec2Model ----
(***************************************************************************)
(* The 1-D interpolation class `interp` of adtools.py: construction        *)
(* (linear / cubic), interval lookup `find`, evaluation `__call__` and     *)
(* `derivative`.  Floating point numbers are modelled as exact rationals   *)
(* <<numerator, denominator>>; arrays as records [shape, data] with the    *)
(* data in row-major order; a raised exception as a record [error].        *)
(***************************************************************************)
EXTENDS Integers, Sequences, FiniteSets, TLC

(* ------------------------------ bounds --------------------------------- *)
\* largest number of nodes / samples of a bounded input
MaxN == 3
\* node coordinates of bounded inputs are drawn from 0..MaxNode
MaxNode == 2
\* sample values of bounded inputs are drawn from 0..MaxSample
MaxSample == 1

(* --------------------------- exact numbers ----------------------------- *)
Abs(n) == IF n < 0 THEN -n ELSE n

RECURSIVE GCD(_, _)
GCD(a, b) == IF b = 0 THEN a ELSE GCD(b, a % b)

\* a float that is not a number (0/0, x/0)
NaN == <<0, 0>>

Norm(n, d) ==
    IF d = 0 THEN NaN
    ELSE LET g == GCD(Abs(n), Abs(d))
             s == IF d < 0 THEN -1 ELSE 1
         IN  <<(s * n) \div g, (s * d) \div g>>

R(n) == <<n, 1>>
RAdd(a, b) == Norm(a[1] * b[2] + b[1] * a[2], a[2] * b[2])
RSub(a, b) == Norm(a[1] * b[2] - b[1] * a[2], a[2] * b[2])
RMul(a, b) == Norm(a[1] * b[1], a[2] * b[2])
RDiv(a, b) == Norm(a[1] * b[2], a[2] * b[1])
RLess(a, b) == a[2] # 0 /\ b[2] # 0 /\ a[1] * b[2] < b[1] * a[2]
RPow2(a) == RMul(a, a)
RPow3(a) == RMul(a, RMul(a, a))

(* ------------------------------ arrays --------------------------------- *)
Err(name) == [error |-> name]
IsErr(a) == "error" \in DOMAIN a

Arr(shape, data) == [shape |-> shape, data |-> data]
\* a Python scalar takes part in arithmetic as a 0-d array
Scalar(n) == Arr(<<>>, <<R(n)>>)

RECURSIVE Prod(_)
Prod(s) == IF s = <<>> THEN 1 ELSE Head(s) * Prod(Tail(s))

Size(a) == Prod(a.shape)

\* number of elements spanned by one step along axis k of shape s
Stride(s, k) == Prod(SubSeq(s, k + 1, Len(s)))

\* shape s padded on the left with ones up to rank r
Pad(s, r) == [k \in 1..r |-> IF k <= r - Len(s) THEN 1 ELSE s[k - (r - Len(s))]]

Max2(a, b) == IF a >= b THEN a ELSE b

BroadcastOk(sa, sb) ==
    LET r == Max2(Len(sa), Len(sb))
        pa == Pad(sa, r)
        pb == Pad(sb, r)
    IN  \A k \in 1..r : pa[k] = pb[k] \/ pa[k] = 1 \/ pb[k] = 1

BroadcastShape(sa, sb) ==
    LET r == Max2(Len(sa), Len(sb))
        pa == Pad(sa, r)
        pb == Pad(sb, r)
    IN  [k \in 1..r |-> IF pa[k] = 1 THEN pb[k] ELSE pa[k]]

RECURSIVE SumTo(_, _)
SumTo(f, n) == IF n = 0 THEN 0 ELSE f[n] + SumTo(f, n - 1)

\* position (1-based) in the data of an array of shape s, viewed with the
\* broadcast shape rs, of the element at flat position p (0-based) of rs
BroadcastAt(s, rs, p) ==
    LET r == Len(rs)
        ps == Pad(s, r)
        off == [k \in 1..r |->
                  IF ps[k] = 1 THEN 0
                  ELSE ((p \div Stride(rs, k)) % rs[k]) * Stride(ps, k)]
    IN  1 + SumTo(off, r)

\* one arithmetic operation on two numbers
Apply(o, x, y) ==
    CASE o = "+" -> RAdd(x, y)
      [] o = "-" -> RSub(x, y)
      [] o = "*" -> RMul(x, y)
      [] o = "/" -> RDiv(x, y)

\* elementwise binary operation with numpy broadcasting
BinOp(o, a, b) ==
    IF IsErr(a) THEN a
    ELSE IF IsErr(b) THEN b
    ELSE IF a.shape = b.shape
    THEN Arr(a.shape, [p \in 1..Size(a) |-> Apply(o, a.data[p], b.data[p])])
    ELSE IF ~BroadcastOk(a.shape, b.shape) THEN Err("ValueError")
    ELSE LET rs == BroadcastShape(a.shape, b.shape)
         IN  Arr(rs, [p \in 1..Prod(rs) |->
                        Apply(o, a.data[BroadcastAt(a.shape, rs, p - 1)],
                                 b.data[BroadcastAt(b.shape, rs, p - 1)])])

Add(a, b) == BinOp("+", a, b)
Sub(a, b) == BinOp("-", a, b)
Mul(a, b) == BinOp("*", a, b)
Div(a, b) == BinOp("/", a, b)

\* a**2 and a**3, elementwise
Square(a) == IF IsErr(a) THEN a ELSE Arr(a.shape, [p \in 1..Size(a) |-> RPow2(a.data[p])])
Cube(a) == IF IsErr(a) THEN a ELSE Arr(a.shape, [p \in 1..Size(a) |-> RPow3(a.data[p])])

ravel(a) == IF IsErr(a) THEN a ELSE Arr(<<Size(a)>>, a.data)

reshape(a, shape) ==
    IF IsErr(a) THEN a
    ELSE IF Prod(shape) # Size(a) THEN Err("ValueError")
    ELSE Arr(shape, a.data)

\* a[lo:hi] of a 1-d array, lo and hi 0-based and already resolved
Slice(a, lo, hi) ==
    IF IsErr(a) THEN a
    ELSE LET n == a.shape[1]
             l == IF lo > n THEN n ELSE lo
             h == IF hi > n THEN n ELSE hi
         IN  IF h <= l THEN Arr(<<0>>, <<>>)
             ELSE Arr(<<h - l>>, SubSeq(a.data, l + 1, h))

\* a[1:], a[:-1], a[:1], a[-1:] of a 1-d array
From1(a) == IF IsErr(a) THEN a ELSE Slice(a, 1, a.shape[1])
ButLast(a) == IF IsErr(a) THEN a ELSE Slice(a, 0, Max2(a.shape[1] - 1, 0))
First1(a) == IF IsErr(a) THEN a ELSE Slice(a, 0, 1)
Last1(a) == IF IsErr(a) THEN a ELSE Slice(a, Max2(a.shape[1] - 1, 0), a.shape[1])

hstack3(a, b, c) ==
    IF IsErr(a) THEN a
    ELSE IF IsErr(b) THEN b
    ELSE IF IsErr(c) THEN c
    ELSE Arr(<<Size(a) + Size(b) + Size(c)>>, a.data \o b.data \o c.data)

\* a[i] for an integer index array i (any shape) into the first axis of a:
\* the result has the shape of i followed by the remaining axes of a
Take(a, i) ==
    IF IsErr(a) THEN a
    ELSE IF IsErr(i) THEN i
    ELSE LET n == a.shape[1]
             row == Stride(a.shape, 1)
             at(j) == IF j < 0 THEN j + n ELSE j
         IN  IF \E p \in 1..Size(i) : i.data[p] >= n \/ i.data[p] < -n
             THEN Err("IndexError")
             ELSE Arr(i.shape \o Tail(a.shape),
                      [q \in 1..(Size(i) * row) |->
                         a.data[at(i.data[1 + ((q - 1) \div row)]) * row
                                + ((q - 1) % row) + 1]])

\* a[:, c]: all of the first axis, entry c of the second axis
Col(a, c) ==
    IF IsErr(a) THEN a
    ELSE IF Len(a.shape) < 2 THEN Err("IndexError")
    ELSE IF c >= a.shape[2] THEN Err("IndexError")
    ELSE LET rest == Stride(a.shape, 2)
             rs == <<a.shape[1]>> \o SubSeq(a.shape, 3, Len(a.shape))
         IN  Arr(rs, [q \in 1..Prod(rs) |->
                        a.data[((q - 1) \div rest) * a.shape[2] * rest
                               + c * rest + ((q - 1) % rest) + 1]])

\* y0[:, np.newaxis]
newaxis(a) == IF IsErr(a) THEN a ELSE Arr(<<a.shape[1], 1>>, a.data)

\* transpose([a, b]) of two 1-d arrays: one row [a[k], b[k]] per k
transpose2(a, b) ==
    IF IsErr(a) THEN a
    ELSE IF IsErr(b) THEN b
    ELSE IF a.shape # b.shape THEN Err("ValueError")
    ELSE Arr(<<a.shape[1], 2>>,
             [q \in 1..(2 * a.shape[1]) |->
                IF q % 2 = 1 THEN a.data[(q + 1) \div 2] ELSE b.data[q \div 2]])

zeros(n) == Arr(<<n>>, [k \in 1..n |-> R(0)])


(* ------------------------ external collaborators ---------------------- *)
\* the search with side = right: the entries smaller than or equal to x
searchsorted_Right(a, x) ==
    Arr(x.shape, [p \in 1..Size(x) |->
                    Cardinality({k \in 1..Size(a) : ~RLess(x.data[p], a.data[k])})])

\* np.searchsorted(a, x), side = left: per query value the number of entries
\* of the sorted 1-d array a that are strictly smaller
searchsorted(a, x) ==
    Arr(x.shape, [p \in 1..Size(x) |->
                    Cardinality({k \in 1..Size(a) : RLess(a.data[k], x.data[p])})])

(* ------------------------------ interp --------------------------------- *)
Kinds == {"linear", "cubic"}

\* (base(x0)[1:] > base(x0)[:-1]).all()
StrictlyIncreasing(x) ==
    \A k \in 1..(Size(x) - 1) : RLess(x.data[k], x.data[k + 1])

cspline_resid(yp, x, y) ==
    LET dx == Sub(From1(x), ButLast(x))
        slope == Div(Sub(From1(y), ButLast(y)), dx)
        curv_L == Div(Sub(Sub(Mul(Scalar(6), slope), Mul(Scalar(4), ButLast(yp))),
                          Mul(Scalar(2), From1(yp))), dx)
        curv_R == Div(Sub(Add(Mul(Scalar(4), From1(yp)), Mul(Scalar(2), ButLast(yp))),
                          Mul(Scalar(6), slope)), dx)
    IN  hstack3(First1(curv_L),
                Sub(From1(curv_L), ButLast(curv_R)),
                Sub(Scalar(0), Last1(curv_R)))

(* ------------------- the nonlinear solver (numpad) --------------------- *)
RowSwap(M, i, j) == [M EXCEPT ![i] = M[j], ![j] = M[i]]

RowScale(row, c) == [q \in 1..Len(row) |-> RDiv(row[q], c)]

RowSubMul(row, piv, c) == [q \in 1..Len(row) |-> RSub(row[q], RMul(c, piv[q]))]

\* one step of Gauss-Jordan elimination on the augmented n x (n+1) matrix M:
\* column k is cleared with the first row from k on that has a pivot; <<>>
\* when there is none (the matrix is singular)
EliminateColumn(M, k, n) ==
    LET P == {p \in k..n : M[p][k] # R(0)}
    IN  IF P = {} THEN <<>>
        ELSE LET p == CHOOSE q \in P : \A o \in P : q <= o
                 S == RowSwap(M, k, p)
                 piv == RowScale(S[k], S[k][k])
             IN  [r \in 1..n |-> IF r = k THEN piv ELSE RowSubMul(S[r], piv, S[r][k])]

\* columns k..n, one after the other
RECURSIVE Eliminate(_, _, _)
Eliminate(M, k, n) ==
    IF k > n \/ M = <<>> THEN M
    ELSE CHOOSE E \in {Eliminate(C, k + 1, n) : C \in {EliminateColumn(M, k, n)}} : TRUE

\* the Jacobian of the residual at guess, column by column (it is affine in the unknown
\* here, so the difference quotient with step 1 is exact)
Jacobian(guess, F0, x, y) ==
    LET n == Size(guess)
        unit(j) == Arr(<<n>>, [k \in 1..n |-> IF k = j THEN R(1) ELSE R(0)])
    IN  [j \in 1..n |->
           CHOOSE c \in {Sub(Fj, F0).data :
                           Fj \in {cspline_resid(g, x, y) : g \in {Add(guess, unit(j))}}} : TRUE]

\* the augmented matrix [J | -F0] of the Newton step
Augmented(J, F0, n) ==
    [r \in 1..n |-> [q \in 1..(n + 1) |-> IF q <= n THEN J[q][r] ELSE RSub(R(0), F0.data[r])]]

\* one Newton step of solve(F, guess, args), F = cspline_resid, with the exact Jacobian; for
\* a residual that is affine in the unknown the step lands on the root
\* the step from guess, given the residual F0 there
Step(guess, F0, x, y) ==
    LET n == Size(guess)
    IN  IF IsErr(F0) THEN F0
        ELSE IF Size(F0) # n THEN Err("SolverError")
        ELSE LET E == CHOOSE e \in {Eliminate(M, 1, n) :
                                      M \in {Augmented(J, F0, n) :
                                               J \in {Jacobian(guess, F0, x, y)}}} : TRUE
             IN  IF E = <<>> THEN Err("SolverError")
                 ELSE Add(guess, Arr(<<n>>, [k \in 1..n |-> E[k][n + 1]]))

NewtonStep(guess, x, y) ==
    CHOOSE s \in {Step(guess, F0, x, y) : F0 \in {cspline_resid(guess, x, y)}} : TRUE

IsZero(a) == \A p \in 1..Size(a) : a.data[p] = R(0)

\* solve(self.cspline_resid, guess, (x, y)): the root of the residual, or the
\* solver's failure
\* the root is accepted when the residual F there vanishes
Converged(root, F) ==
    IF IsErr(root) THEN root
    ELSE IF IsErr(F) THEN F
    ELSE IF IsZero(F) THEN root
    ELSE Err("SolverError")

solve(guess, x, y) ==
    CHOOSE r \in {Converged(root, F) :
                    <<root, F>> \in {<<s, IF IsErr(s) THEN s ELSE cspline_resid(s, x, y)>> :
                                        s \in {NewtonStep(guess, x, y)}}} : TRUE

(* --------------------------- interp, continued ------------------------- *)
\* __init__ keeping the initial guess zeros(y0.size) as the derivatives
InitValues_Unsolved(type, x0, y0) ==
    IF type = "linear" THEN newaxis(y0)
    ELSE transpose2(y0, zeros(Size(y0)))

\* the value data self.y0 that __init__ builds for a known kind
InitValues(type, x0, y0) ==
    IF type = "linear" THEN newaxis(y0)
    ELSE CHOOSE v \in {transpose2(y0, y0p) :
                         y0p \in {solve(guess, x0, y0) : guess \in {zeros(Size(y0))}}} : TRUE

\* the clamp without its lower bound: np.maximum left out
Clamp_NoLower(i, n) ==
    Arr(i.shape, [p \in 1..Size(i) |-> IF i.data[p] > n - 1 THEN n - 1 ELSE i.data[p]])

\* the clamp without its upper bound: np.minimum left out
Clamp_NoUpper(i, n) ==
    Arr(i.shape, [p \in 1..Size(i) |-> IF i.data[p] < 1 THEN 1 ELSE i.data[p]])

\* np.maximum(i, 1, i); np.minimum(i, self.x0.size - 1, i)
Clamp(i, n) ==
    Arr(i.shape, [p \in 1..Size(i) |->
                    LET lo == IF i.data[p] < 1 THEN 1 ELSE i.data[p]
                    IN  IF lo > n - 1 THEN n - 1 ELSE lo])

Pred(i) == Arr(i.shape, [p \in 1..Size(i) |-> i.data[p] - 1])

\* the interval index of every query value, or the error of the lookup
FindIndex(self, x) ==
    IF x.shape = <<>> THEN Err("TypeError")
    ELSE Clamp(searchsorted(self.x0, x), Size(self.x0))

find(self, x) ==
    LET i == FindIndex(self, x)
        r == [x0 |-> Take(self.x0, Pred(i)), x1 |-> Take(self.x0, i),
              y0 |-> Take(self.y0, Pred(i)), y1 |-> Take(self.y0, i)]
    IN  IF IsErr(i) THEN i
        ELSE IF IsErr(r.x0) THEN r.x0
        ELSE IF IsErr(r.x1) THEN r.x1
        ELSE IF IsErr(r.y0) THEN r.y0
        ELSE IF IsErr(r.y1) THEN r.y1
        ELSE r

\* a += b: the sum must keep the shape of a
IAdd(a, b) ==
    LET s == Add(a, b)
    IN  IF IsErr(s) THEN s
        ELSE IF s.shape # a.shape THEN Err("ValueError")
        ELSE s

\* the correction polynomial with a wrong quadratic coefficient: t - t^2 + t^3
Poly0_WrongCoefficient(t) == Add(Sub(t, Square(t)), Cube(t))

Poly0(t) == Add(Sub(t, Mul(Scalar(2), Square(t))), Cube(t))

\* the derivative polynomial with a wrong linear coefficient: 1 - 3t + 3t^2
PolyD_WrongCoefficient(t) ==
    Add(Sub(Scalar(1), Mul(Scalar(3), t)), Mul(Scalar(3), Square(t)))

PolyD(t) == Add(Sub(Scalar(1), Mul(Scalar(4), t)), Mul(Scalar(3), Square(t)))

\* interp.__call__
Call(self, xin) ==
    LET shape == xin.shape
        x == ravel(xin)
        f == find(self, x)
        x_x0 == Div(Sub(x, f.x0), Sub(f.x1, f.x0))
        x_x1 == Sub(Scalar(1), x_x0)
        y == Add(Mul(x_x0, Col(f.y1, 0)), Mul(x_x1, Col(f.y0, 0)))
        slope == Div(Sub(Col(f.y1, 0), Col(f.y0, 0)), Sub(f.x1, f.x0))
        corr == Add(Mul(Mul(Poly0(x_x0), Sub(Col(f.y0, 1), slope)), Sub(f.x1, f.x0)),
                    Mul(Mul(Poly0(x_x1), Sub(Col(f.y1, 1), slope)), Sub(f.x0, f.x1)))
    IN  IF IsErr(f) THEN f
        ELSE IF IsErr(y) THEN y
        ELSE IF self.y0.shape[2] = 2 THEN reshape(IAdd(y, corr), shape)
        ELSE reshape(y, shape)

\* interp.derivative
derivative(self, x) ==
    LET f == find(self, x)
        yp == Div(Sub(Col(f.y1, 0), Col(f.y0, 0)), Sub(f.x1, f.x0))
        x_x0 == Div(Sub(x, f.x0), Sub(f.x1, f.x0))
        x_x1 == Sub(Scalar(1), x_x0)
        slope == Div(Sub(Col(f.y1, 0), Col(f.y0, 0)), Sub(f.x1, f.x0))
        corr == Add(Mul(PolyD(x_x0), Sub(Col(f.y0, 1), slope)),
                    Mul(PolyD(x_x1), Sub(Col(f.y1, 1), slope)))
    IN  IF IsErr(f) THEN f
        ELSE IF IsErr(yp) THEN yp
        ELSE IF self.y0.shape[2] = 2 THEN IAdd(yp, corr)
        ELSE yp


(* ------------------------------- inputs -------------------------------- *)
RECURSIVE SeqsOfLen(_, _)
SeqsOfLen(S, n) ==
    IF n = 0 THEN {<<>>}
    ELSE {Append(q, v) : q \in SeqsOfLen(S, n - 1), v \in S}

Increasing(q) == \A k \in 1..(Len(q) - 1) : q[k] < q[k + 1]

\* valid node grids: strictly increasing coordinates
Grids == UNION {{q \in SeqsOfLen(0..MaxNode, n) : Increasing(q)} : n \in 2..MaxN}

\* a valid grid with one defect: two neighbours swapped, or one repeated
Defects(g) ==
    {[g EXCEPT ![k] = g[k + 1], ![k + 1] = g[k]] : k \in 1..(Len(g) - 1)}
    \cup {[g EXCEPT ![k + 1] = g[k]] : k \in 1..(Len(g) - 1)}

NodeInputs == Grids \cup UNION {Defects(g) : g \in Grids}

SampleInputs == UNION {SeqsOfLen(0..MaxSample, n) : n \in 2..MaxN}

\* the requested kinds, one of them unknown to the class
Types == Kinds \cup {"quadratic"}

\* nodes [0, 1, 2, 3] with samples [0, 1, 0, 1]
ScenarioNodes == <<0, 1, 2, 3>>
ScenarioSamples == <<0, 1, 0, 1>>

Inputs ==
    (NodeInputs \X SampleInputs \X Types)
    \cup {<<ScenarioNodes, ScenarioSamples, "cubic">>}

Floats(q) == [k \in 1..Len(q) |-> R(q[k])]

Half(k) == Norm(k, 2)

\* query coordinates: every half from -1 to MaxNode + 1
QVals == {Half(k) : k \in (-2)..(2 * MaxNode + 2)}

\* linspace(1/2, n/2, n) in the given shape
Ramp(shape) == Arr(shape, [k \in 1..Prod(shape) |-> Half(k)])

QueryShapes == {<<>>, <<2>>, <<1, 1>>, <<1, 2>>, <<2, 1>>}

Queries == {Arr(<<1>>, <<q>>) : q \in QVals} \cup {Ramp(s) : s \in QueryShapes}

(* ------------------------------- state --------------------------------- *)
VARIABLES
    heap,    \* the data buffers: the caller's x0, y0 ("cx", "cy"), the instance's ("sx", "sy")
    type,    \* the kind the caller asks for
    self,    \* the instance: the arrays self.x0, self.y0 (buffer, shape), or None
    pc,      \* "new", "idle", "returned", "raised"
    op,      \* the operation that acted last
    query,   \* the argument of the last call
    result   \* what the last operation returned or raised

vars == <<heap, type, self, pc, op, query, result>>

None == [none |-> TRUE]

\* the array a handle (buffer, shape) refers to
Load(h, a) == Arr(a.shape, h[a.buf])

\* the instance as the methods see it
Self == [x0 |-> Load(heap, self.x0), y0 |-> Load(heap, self.y0)]

\* the caller's arrays
CallerX == Arr(<<Len(heap.cx)>>, heap.cx)
CallerY == Arr(<<Len(heap.cy)>>, heap.cy)

Init ==
    /\ \E in \in Inputs :
          /\ heap = [cx |-> Floats(in[1]), cy |-> Floats(in[2]), sx |-> <<>>, sy |-> <<>>]
          /\ type = in[3]
    /\ self = None
    /\ pc = "new"
    /\ op = "none"
    /\ query = None
    /\ result = None

\* no copy: the new array refers to the buffer of the source
copy_Alias(src, fresh) == src

\* a.copy() into the fresh buffer: the buffer the new array refers to
copy(src, fresh) == fresh

\* the assert with >= for >: equal neighbours pass
Precondition_NonStrict(x0) ==
    \A k \in 1..(Size(x0) - 1) : ~RLess(x0.data[k + 1], x0.data[k])

\* the assert of __init__
Precondition(x0) == StrictlyIncreasing(x0)

\* interp.__init__
Construct ==
    /\ pc = "new"
    /\ UNCHANGED <<type, query>>
    /\ IF ~Precondition(CallerX)
       THEN /\ result' = Err("AssertionError")
            /\ pc' = "raised"
            /\ op' = "init"
            /\ UNCHANGED <<heap, self>>
       ELSE IF type \notin Kinds
       THEN /\ result' = Err("ValueError")
            /\ pc' = "raised"
            /\ op' = "init"
            /\ heap' = [heap EXCEPT !.sx = heap.cx]
            /\ UNCHANGED self
       ELSE \E y0 \in {InitValues(type, CallerX, CallerY)} :
               IF IsErr(y0)
               THEN /\ result' = y0
                    /\ pc' = "raised"
                    /\ op' = "init"
                    /\ heap' = [heap EXCEPT !.sx = heap.cx]
                    /\ UNCHANGED self
               ELSE /\ result' = None
                    /\ pc' = "idle"
                    /\ op' = "none"
                    /\ heap' = [heap EXCEPT !.sx = heap.cx, !.sy = y0.data]
                    /\ self' = [x0 |-> [buf |-> copy("cx", "sx"), shape |-> CallerX.shape],
                                y0 |-> [buf |-> IF type = "linear" THEN copy("cy", "sy")
                                                ELSE "sy",
                                        shape |-> y0.shape]]

\* y = self(x)
Evaluate ==
    /\ pc = "idle"
    /\ \E me \in {Self} : \E x \in Queries \cup {me.x0} :
          \E r \in {Call(me, x)} :
             /\ query' = x
             /\ result' = r
    /\ op' = "call"
    /\ pc' = "returned"
    /\ UNCHANGED <<heap, type, self>>

\* yp = self.derivative(x)
Derivative ==
    /\ pc = "idle"
    /\ \E me \in {Self} : \E x \in Queries \cup {me.x0} :
          \E r \in {derivative(me, x)} :
             /\ query' = x
             /\ result' = r
    /\ op' = "derivative"
    /\ pc' = "returned"
    /\ UNCHANGED <<heap, type, self>>

\* the caller takes the result (or the exception) and goes on
Return ==
    /\ pc = "returned"
    /\ pc' = "idle"
    /\ op' = "none"
    /\ query' = None
    /\ result' = None
    /\ UNCHANGED <<heap, type, self>>

\* the caller overwrites one of the arrays it passed to the constructor
Mutate ==
    /\ pc = "idle"
    /\ \E b \in {"cx", "cy"} :
          heap' = [heap EXCEPT ![b] = [k \in 1..Len(heap[b]) |-> R(0)]]
    /\ UNCHANGED <<type, self, pc, op, query, result>>

Next == Construct \/ Evaluate \/ Derivative \/ Return \/ Mutate

Spec == Init /\ [][Next]_vars

(* ------------------------- reading the state --------------------------- *)
Built == self # None

\* number of nodes of the instance
N == Self.x0.shape[1]

\* node k and sample k of the instance, k in 0..N-1
Node(k) == Self.x0.data[k + 1]
Sample(k) == Self.y0.data[k * Self.y0.shape[2] + 1]
\* the derivative coefficient stored for node k of a cubic instance
Slope(k) == Self.y0.data[k * 2 + 2]

\* the instance came from as many samples as nodes
Matched == Self.y0.shape[1] = N

IsCubic == Self.y0.shape[2] = 2

Returned(o) == pc = "returned" /\ op = o

\* positions of the elements of the last query
QPos == 1..Size(query)

RLeq(a, b) == a = b \/ RLess(a, b)

(* ------------------------------- claims -------------------------------- *)

\* C1: after a valid construction (as many samples as nodes, linear or
\* cubic), every element of an evaluated query that equals a node nodes[k]
\* yields samples[k]; for the cubic kind whatever derivatives are stored.
C1_MatchesSamples ==
    (Built /\ Returned("call") /\ Matched) =>
        /\ ~IsErr(result)
        /\ \A p \in QPos : \A k \in 0..(N - 1) :
              query.data[p] = Node(k) => result.data[p] = Sample(k)

\* a cubic instance with a non-zero stored derivative was evaluated at all of
\* its three or more nodes
C1_Witness ==
    /\ Built /\ Returned("call") /\ Matched /\ IsCubic
    /\ N >= 3
    /\ query = Self.x0
    /\ \E k \in 0..(N - 1) : Slope(k) # R(0)
    /\ \A k \in 0..(N - 1) : result.data[k + 1] = Sample(k)

\* the line through the first two nodes: slope and intercept
LineA == RDiv(RSub(Sample(1), Sample(0)), RSub(Node(1), Node(0)))
LineB == RSub(Sample(0), RMul(LineA, Node(0)))
OnLine(a, b, k) == Sample(k) = RAdd(RMul(a, Node(k)), b)

\* the slopes a line through two points of a bounded input can have
Slopes == {Norm(n, d) : n \in (-MaxSample)..MaxSample, d \in 1..MaxNode}

\* C2 (as amended): for the linear kind, samples that are affine in all nodes
\* give a*q + b for every query q, below the first and above the last node
\* included; and with three or more nodes, samples that are affine in the
\* nodes up to nodes[N-2] give a*q + b for every q <= nodes[N-2].
C2_LinearExact ==
    (Built /\ Returned("call") /\ Matched /\ ~IsCubic) =>
        /\ (\A k \in 0..(N - 1) : OnLine(LineA, LineB, k)) =>
              /\ ~IsErr(result)
              /\ \A p \in QPos :
                    result.data[p] = RAdd(RMul(LineA, query.data[p]), LineB)
        /\ (N >= 3 /\ \A k \in 0..(N - 2) : OnLine(LineA, LineB, k)) =>
              /\ ~IsErr(result)
              /\ \A p \in QPos :
                    RLeq(query.data[p], Node(N - 2)) =>
                        result.data[p] = RAdd(RMul(LineA, query.data[p]), LineB)

\* C2 as claimed: the second part for every N >= 2, so also for two nodes,
\* where any line a*x + b through the first sample is affine "up to nodes[N-2]"
C2_Original ==
    (Built /\ Returned("call") /\ Matched /\ ~IsCubic) =>
        /\ (\A k \in 0..(N - 1) : OnLine(LineA, LineB, k)) =>
              /\ ~IsErr(result)
              /\ \A p \in QPos :
                    result.data[p] = RAdd(RMul(LineA, query.data[p]), LineB)
        /\ \A a \in Slopes :
              LET b == RSub(Sample(0), RMul(a, Node(0)))
              IN  (\A k \in 0..(N - 2) : OnLine(a, b, k)) =>
                     /\ ~IsErr(result)
                     /\ \A p \in QPos :
                           RLeq(query.data[p], Node(N - 2)) =>
                               result.data[p] = RAdd(RMul(a, query.data[p]), b)

\* three nodes, the last sample off the sloping line of the others, and a
\* query below the first node that came out on the line
C2_Witness ==
    /\ Built /\ Returned("call") /\ Matched /\ ~IsCubic
    /\ N >= 3
    /\ LineA # R(0)
    /\ \A k \in 0..(N - 2) : OnLine(LineA, LineB, k)
    /\ ~OnLine(LineA, LineB, N - 1)
    /\ \E p \in QPos :
          /\ RLess(query.data[p], Node(0))
          /\ result.data[p] = RAdd(RMul(LineA, query.data[p]), LineB)

\* C3: for the cubic kind, the derivative at a node nodes[k] (a 1-d query) is
\* the derivative coefficient stored for node k, for the first node and
\* for every later one.
C3_DerivativeAtNodes ==
    (Built /\ Returned("derivative") /\ Matched /\ IsCubic /\ Len(query.shape) = 1) =>
        /\ ~IsErr(result)
        /\ \A p \in QPos : \A k \in 0..(N - 1) :
              query.data[p] = Node(k) => result.data[p] = Slope(k)

\* the derivative was taken at all three or more nodes of a cubic instance
\* whose stored derivatives are not all equal
C3_Witness ==
    /\ Built /\ Returned("derivative") /\ Matched /\ IsCubic
    /\ N >= 3
    /\ query = Self.x0
    /\ \E j, k \in 0..(N - 1) : Slope(j) # Slope(k)
    /\ \A k \in 0..(N - 1) : result.data[k + 1] = Slope(k)

\* C4: evaluation and derivative return an output of exactly the shape of the
\* query, for scalar, 1-d and 2-d queries.
C4_ShapePreserved ==
    (Built /\ pc = "returned" /\ Matched) =>
        /\ ~IsErr(result)
        /\ result.shape = query.shape

\* the array find was called with by the last operation
FindArg == IF op = "call" THEN ravel(query) ELSE query

\* the interval index find computed for it, per element
FindIdx == FindIndex(Self, FindArg)

\* C5 as claimed: a query value x inside the node range lies in the located
\* interval left-closed, right-open: nodes[i-1] <= x < nodes[i].
C5_Original ==
    (Built /\ pc = "returned" /\ Matched /\ FindArg.shape # <<>>) =>
        \A p \in QPos :
            (RLeq(Node(0), query.data[p]) /\ RLess(query.data[p], Node(N - 1))) =>
                /\ RLeq(Node(FindIdx.data[p] - 1), query.data[p])
                /\ RLess(query.data[p], Node(FindIdx.data[p]))

\* C5 (as amended): a query value x with nodes[0] < x <= nodes[N-1] lies in
\* the located interval left-open, right-closed: nodes[i-1] < x <= nodes[i], so
\* a query equal to a later node nodes[k] is assigned to the interval that ends
\* at nodes[k]; a query equal to the first node is assigned to the first
\* interval.
C5_LeftOpen ==
    (Built /\ pc = "returned" /\ Matched /\ FindArg.shape # <<>>) =>
        \A p \in QPos :
            /\ (RLess(Node(0), query.data[p]) /\ RLeq(query.data[p], Node(N - 1))) =>
                  /\ RLess(Node(FindIdx.data[p] - 1), query.data[p])
                  /\ RLeq(query.data[p], Node(FindIdx.data[p]))
            /\ query.data[p] = Node(0) => FindIdx.data[p] = 1

\* a query equal to an interior node nodes[k] was looked up and got the
\* interval that ends at nodes[k]
C5_Witness ==
    /\ Built /\ pc = "returned" /\ Matched /\ FindArg.shape # <<>>
    /\ \E p \in QPos : \E k \in 1..(N - 2) :
          /\ query.data[p] = Node(k)
          /\ FindIdx.data[p] = k

\* C6: for every query value the interval index lies in 1..N-1; a value below
\* the first node uses the first interval, a value at or above the last node
\* the last interval, and the lookup and the operation raise no error.
C6_ClampedIndex ==
    (Built /\ pc = "returned" /\ Matched /\ FindArg.shape # <<>>) =>
        /\ ~IsErr(FindIdx)
        /\ ~IsErr(find(Self, FindArg))
        /\ (op = "call" \/ Len(query.shape) = 1) => ~IsErr(result)
        /\ \A p \in QPos :
              /\ FindIdx.data[p] \in 1..(N - 1)
              /\ RLess(query.data[p], Node(0)) => FindIdx.data[p] = 1
              /\ RLeq(Node(N - 1), query.data[p]) => FindIdx.data[p] = N - 1

\* a query above the last of three or more nodes was evaluated with the last
\* interval
C6_Witness ==
    /\ Built /\ Returned("call") /\ Matched
    /\ N >= 3
    /\ ~IsErr(result)
    /\ \E p \in QPos :
          /\ RLess(Node(N - 1), query.data[p])
          /\ FindIdx.data[p] = N - 1

\* C7: construction with nodes that are not strictly increasing raises an
\* error before anything is stored, whatever the kind, and leaves no instance.
C7_RejectsUnsortedNodes ==
    [][(pc = "new" /\ ~StrictlyIncreasing(CallerX)) =>
          /\ pc' = "raised"
          /\ result' = Err("AssertionError")
          /\ self' = None
          /\ heap' = heap]_vars

\* the construction from nodes [0, 2, 1] was refused, for a known kind
C7_Witness ==
    /\ pc = "raised"
    /\ heap.cx = Floats(<<0, 2, 1>>)
    /\ type \in Kinds
    /\ result = Err("AssertionError")
    /\ self = None
    /\ heap.sx = <<>>

\* C8: no instance is ever built from nodes and samples of different lengths.
C8_RejectsLengthMismatch == Built => Matched

\* C9: once built, the instance's stored nodes and values never change:
\* no evaluation, derivative or overwrite of the caller's arrays touches them.
C9_StoredDataUnchanged == [][Built => (self' = self /\ Self' = Self)]_vars

\* the caller has overwritten both of its arrays and the instance still
\* answers from the data it was built from
C9_Witness ==
    /\ Built /\ Returned("call") /\ Matched
    /\ heap.cx # heap.sx
    /\ \E k \in 0..(N - 1) : heap.cy[k + 1] # Sample(k)
    /\ ~IsErr(result)
    /\ \E p \in QPos : \E k \in 0..(N - 1) :
          query.data[p] = Node(k) /\ result.data[p] = Sample(k)

\* the instance is the cubic one of nodes [0, 1, 2, 3], samples [0, 1, 0, 1]
IsScenario ==
    /\ Built /\ Matched /\ IsCubic
    /\ Self.x0 = Arr(<<4>>, Floats(ScenarioNodes))
    /\ \A k \in 0..3 : Sample(k) = R(ScenarioSamples[k + 1])

\* C10: for nodes [0, 1, 2, 3], samples [0, 1, 0, 1], cubic, the stored
\* derivatives are the root of the residual, and the value at x = 0.5 lies
\* strictly between 0 and 1 and is not the linear blend 0.5.
C10_Scenario ==
    IsScenario =>
        /\ IsZero(cspline_resid(Arr(<<4>>, [k \in 1..4 |-> Slope(k - 1)]),
                                Self.x0,
                                Arr(<<4>>, [k \in 1..4 |-> Sample(k - 1)])))
        /\ Returned("call") =>
              /\ ~IsErr(result)
              /\ \A p \in QPos :
                    query.data[p] = Half(1) =>
                        /\ RLess(R(0), result.data[p])
                        /\ RLess(result.data[p], R(1))
                        /\ result.data[p] # Half(1)

\* the scenario was evaluated at x = 0.5 and gave 3/4
C10_Witness ==
    /\ IsScenario /\ Returned("call")
    /\ query = Arr(<<1>>, <<Half(1)>>)
    /\ result = Arr(<<1>>, <<Norm(3, 4)>>)

====
